---- MODULE Spec2Model ----
(***************************************************************************)
(* A state-machine model of rl_teacher/reward_predictors.py:               *)
(*   - TraditionalRLRewardPredictor (predict_reward, path_callback)        *)
(*   - ComparisonRewardPredictor (predict_reward, path_callback,           *)
(*     train_predictor, _write_training_summaries,                         *)
(*     load_model_from_checkpoint)                                         *)
(* The comparison collector, the label schedule, the agent logger, the     *)
(* segment sampler and the scoring network are collaborators whose code    *)
(* is outside this file; they are modelled from their documented contract. *)
(***************************************************************************)
EXTENDS Integers, Sequences, FiniteSets, TLC

(***************************************************************************)
(* Bounds of the model.                                                    *)
(***************************************************************************)
MaxCalls == 2
MaxTotalSteps == 40000
MaxDesiredLabels == 1
MaxSummaryStep == 1
MaxRecentPaths == 2
MaxDirectOps == 1
MaxPathLen == 2
MaxBatch == 2
MaxWeights == 1
MaxScore == 2
MaxEnumeratedPool == 3
MaxPool == 2

(***************************************************************************)
(* Program constants.                                                      *)
(***************************************************************************)
n_timesteps_per_predictor_training == 2000
n_timesteps_per_checkpoint == 20000
SegmentCap == 1000
MaxMinibatch == 128
ValidationPeriod == 10
IndexWidth == 8

\* clip_length * env.fps, fixed at construction
frames_per_segment == 2
\* env.action_space.n of the discrete action space
n_actions == 2
\* rank of env.observation_space.shape (observations are scalars here)
obs_rank == 0

\* label values of a comparison kept by the collector
NoLabel == -1
TieLabel == 2
Labels == {NoLabel, 0, 1, TieLabel}

Min(a, b) == IF a <= b THEN a ELSE b

Range(seq) == {seq[i] : i \in 1..Len(seq)}

Count(seq, x) == Cardinality({i \in 1..Len(seq) : seq[i] = x})

\* every x of the sequence comes before every y of it
Precedes(seq, x, y) ==
  \A i, j \in 1..Len(seq) : (seq[i] = x /\ seq[j] = y) => i < j

(***************************************************************************)
(* Paths: mappings with keys obs, actions, original_rewards.  The paths    *)
(* given to path_callback are named by their length.                       *)
(***************************************************************************)
PathLens == {1, 1999, 2000, 18000, 20000}

RECURSIVE Repeat(_, _)
\* the sequence of n copies of x
Repeat(x, n) ==
  IF n = 0 THEN <<>>
  ELSE LET half == Repeat(x, n \div 2)
       IN  IF n % 2 = 0 THEN half \o half ELSE Append(half \o half, x)

\* an episode of n steps; its steps are alike
MkPath(n) ==
  [obs |-> Repeat(1, n),
   actions |-> Repeat(1, n),
   original_rewards |-> Repeat(1, n)]

Paths == [n \in PathLens |-> MkPath(n)]

\* len(path["obs"]), per path (evaluated once)
PathLength == [n \in PathLens |-> Len(Paths[n].obs)]

\* paths small enough to be scored by predict_reward in the model
ShortPaths == {n \in PathLens : n <= 1}

None == [obs |-> <<>>, actions |-> <<>>, original_rewards |-> <<>>]

SegmentAt(path, start, len) ==
  [obs |-> SubSeq(path.obs, start, start + len - 1),
   actions |-> SubSeq(path.actions, start, start + len - 1),
   original_rewards |-> SubSeq(path.original_rewards, start, start + len - 1)]

\* sample_segment_from_path: nothing for a path shorter than the segment,
\* else the segment at a random start position
sample_segment_from_path(path, segment_length) ==
  IF Len(path.obs) < segment_length
  THEN {None}
  ELSE {SegmentAt(path, s, segment_length) :
          s \in 1..(Len(path.obs) - segment_length + 1)}

\* the outcomes of sampling, per path (evaluated once)
SampledSegments ==
  [n \in PathLens |-> sample_segment_from_path(Paths[n], frames_per_segment)]

\* Python truthiness of the sampled segment
Truthy(segment) == segment # None


(***************************************************************************)
(* The comparison collector (rl_teacher.comparison_collectors).            *)
(* A segment identifier is its position in the store.  The segments held   *)
(* at construction are interchangeable and stand behind identifier 1; the  *)
(* segments added since are alike and stand behind the newest one.         *)
(***************************************************************************)
DefaultSegment ==
  [obs |-> Repeat(0, frames_per_segment),
   actions |-> Repeat(0, frames_per_segment),
   original_rewards |-> Repeat(0, frames_per_segment)]

\* len(self.comparison_collector._segments)
n_segments(base, added) == base + Len(added)

\* add_segment(segment): the store grows by the segment
add_segment(added, segment) == Append(added, segment)

\* get_segment(id)
get_segment(base, added, id) ==
  IF id <= base THEN DefaultSegment ELSE added[id - base]

SegmentIds(base, added) ==
  (IF base > 0 THEN {1} ELSE {})
  \cup (IF Len(added) > 0 THEN {base + Len(added)} ELSE {})

\* invent_comparison(): one new unlabeled comparison pairing existing
\* segments (none when the store is empty)
invent_comparison(comps, base, added) ==
  IF SegmentIds(base, added) = {}
  THEN {comps}
  ELSE {Append(comps, [left |-> l, right |-> r, label |-> NoLabel]) :
          l \in SegmentIds(base, added), r \in SegmentIds(base, added)}

\* label_unlabeled_comparisons(): every unlabeled comparison either gets
\* the label the labeller has given by now or stays unlabeled; labels
\* already attached stay
label_unlabeled_comparisons(comps) ==
  LET unlabeled == {i \in 1..Len(comps) : comps[i].label = NoLabel}
  IN  {[i \in 1..Len(comps) |->
          IF i \in unlabeled THEN [comps[i] EXCEPT !.label = given[i]] ELSE comps[i]] :
         given \in [unlabeled -> Labels]}

IsDecisive(comp) == comp.label \in {0, 1}

\* the property labeled_decisive_comparisons
labeled_decisive_comparisons(comps) == SelectSeq(comps, IsDecisive)

(***************************************************************************)
(* The scoring network and the forward pass.                               *)
(***************************************************************************)
\* tf.one_hot(index, depth)
one_hot(index, depth) == [k \in 1..depth |-> IF k = index + 1 THEN 1 ELSE 0]

\* the position a one-hot vector marks (0 when it marks none)
HotIndex(vec) ==
  IF \E k \in 1..Len(vec) : vec[k] = 1
  THEN CHOOSE k \in 1..Len(vec) : vec[k] = 1
  ELSE 0

\* the scorer maps one (observation, action) pair to a scalar, with the
\* current weights; it has no memory of the rows around it
Score(w, o, a) == (w + 1) * (1 + 2 * o) + 5 * HotIndex(a)

\* network.run(obs, acts): one scalar per row
network_run(w, obs, acts) == [i \in 1..Len(obs) |-> Score(w, obs[i], acts[i])]

RECURSIVE Flatten(_)
\* tf.reshape(x, (-1,) + shape): the rows of the batch, segment after segment
Flatten(batch) ==
  IF batch = <<>> THEN <<>> ELSE Head(batch) \o Flatten(Tail(batch))

\* mutant: the rewards grouped column by column
Regroup_Transposed(rewards, batchsize, segment_length) ==
  [b \in 1..batchsize |->
     [t \in 1..segment_length |-> rewards[(t - 1) * batchsize + b]]]

\* tf.reshape(rewards, (batchsize, segment_length))
Regroup(rewards, batchsize, segment_length) ==
  [b \in 1..batchsize |->
     [t \in 1..segment_length |-> rewards[(b - 1) * segment_length + t]]]

\* _predict_rewards(obs_segments, act_segments, network)
predict_rewards(obs_segments, act_segments, w) ==
  LET batchsize == Len(obs_segments)
      segment_length == Len(obs_segments[1])
      obs == Flatten(obs_segments)
      acts == Flatten(act_segments)
      rewards == network_run(w, obs, acts)
  IN  Regroup(rewards, batchsize, segment_length)

\* the discrete-action branch of _build_model: one-hot, then the scorer
q_value(obs_batch, act_batch, w) ==
  LET segment_act ==
        [b \in 1..Len(act_batch) |->
           [t \in 1..Len(act_batch[b]) |-> one_hot(act_batch[b][t], n_actions)]]
  IN  predict_rewards(obs_batch, segment_act, w)

\* tf.reduce_sum(q, axis=1) / np.sum(q, axis=1)
RECURSIVE SumSeq(_)
SumSeq(s) == IF s = <<>> THEN 0 ELSE Head(s) + SumSeq(Tail(s))

reduce_sum_axis1(q) == [b \in 1..Len(q) |-> SumSeq(q[b])]

\* rank of np.asarray(batch) for a list of segments' arrays
AsArrayRank(batch, elem_rank) == IF Len(batch) = 0 THEN 1 ELSE 2 + elem_rank

\* session.run refuses a feed whose shape does not fit the placeholder
FeedFits(batch, elem_rank) == AsArrayRank(batch, elem_rank) = 2 + elem_rank

\* the value predict_reward returns
predict_reward(path, w) == q_value(<<path.obs>>, <<path.actions>>, w)[1]

(***************************************************************************)
(* State.                                                                  *)
(***************************************************************************)
VARIABLES
  steps_since_last_training,
  steps_since_last_checkpoint,
  elapsed_predictor_training_iters,
  num_checkpoints,
  weights,              \* trainable parameters of the scorer (a version)
  global_step,          \* the optimizer's global step variable
  checkpoint_files,     \* saved checkpoints: filename, weights, global_step
  base_segments,        \* segments the collector held at construction
  added_segments,       \* segments added since, in order
  comparisons,          \* the collector's comparisons, in order
  n_desired_labels,     \* label_schedule.n_desired_labels
  trad_logged,          \* episodes the baseline predictor's logger was given
  lastOp,               \* the operation that ran last
  err,                  \* how it ended: "none" or the exception raised
  calls,                \* the calls it made, in order
  ret,                  \* its return value
  arg,                  \* its argument
  fed,                  \* the feed of the last optimization step
  totalSteps,           \* sum of the path lengths given to path_callback
  nCalls,               \* number of path_callback calls
  cbTrainCalls,         \* train_predictor invocations made by path_callback
  directOps             \* direct train_predictor / load calls so far

predictorVars == <<steps_since_last_training, steps_since_last_checkpoint,
                   elapsed_predictor_training_iters, num_checkpoints>>
modelVars == <<weights, global_step>>
collectorVars == <<base_segments, added_segments, comparisons>>
historyVars == <<lastOp, err, calls, ret, arg, fed, totalSteps, nCalls,
                 cbTrainCalls, directOps>>
progVars == <<predictorVars, modelVars, checkpoint_files, collectorVars,
              n_desired_labels, trad_logged>>
vars == <<progVars, historyVars>>

NoResult == <<>>

NoArg == [obs |-> <<>>, actions |-> <<>>, original_rewards |-> <<>>, length |-> 0]

NoFeed == [left_obs |-> <<>>, left_acts |-> <<>>, right_obs |-> <<>>,
           right_acts |-> <<>>, labels |-> <<>>]

\* the state after __init__, with the collaborators handed to it: a
\* collector holding one of the given numbers of segments, and weights at
\* one of the given versions
InitWith(bases, versions) ==
  /\ steps_since_last_training = 0
  /\ steps_since_last_checkpoint = 0
  /\ elapsed_predictor_training_iters = 0
  /\ num_checkpoints = 0
  /\ weights \in versions
  /\ global_step = 0
  /\ checkpoint_files = <<>>
  /\ base_segments \in bases
  /\ added_segments = <<>>
  /\ comparisons = <<>>
  /\ n_desired_labels \in 0..MaxDesiredLabels
  /\ trad_logged = 0
  /\ lastOp = "init"
  /\ err = "none"
  /\ calls = <<>>
  /\ ret = NoResult
  /\ arg = NoArg
  /\ fed = NoFeed
  /\ totalSteps = 0
  /\ nCalls = 0
  /\ cbTrainCalls = 0
  /\ directOps = 0

Init == InitWith({0}, {0})

(***************************************************************************)
(* train_predictor and _write_training_summaries.                          *)
(***************************************************************************)
\* random.sample(pool, k): k distinct positions of the pool, in any order
\* (every draw from a pool of at most MaxEnumeratedPool; from a larger pool
\* the runs of k consecutive positions, forwards and backwards)
random_sample(n, k) ==
  IF n <= MaxEnumeratedPool
  THEN {s \in [1..k -> 1..n] : \A i, j \in 1..k : i # j => s[i] # s[j]}
  ELSE {[i \in 1..k |-> d + i] : d \in 0..(n - k)}
       \cup {[i \in 1..k |-> n + 1 - d - i] : d \in 0..(n - k)}

\* mutant: the whole pool, whatever its size
minibatch_size_Uncapped(pool) == Len(pool)

\* min(128, len(labeled_decisive_comparisons))
minibatch_size(pool) == Min(MaxMinibatch, Len(pool))

\* the arrays fed to the optimization step for the drawn comparisons
MinibatchFeed(base, added, drawn) ==
  LET left_segs == [i \in 1..Len(drawn) |-> get_segment(base, added, drawn[i].left)]
      right_segs == [i \in 1..Len(drawn) |-> get_segment(base, added, drawn[i].right)]
  IN  [left_obs |-> [i \in 1..Len(drawn) |-> left_segs[i].obs],
       left_acts |-> [i \in 1..Len(drawn) |-> left_segs[i].actions],
       right_obs |-> [i \in 1..Len(drawn) |-> right_segs[i].obs],
       right_acts |-> [i \in 1..Len(drawn) |-> right_segs[i].actions],
       labels |-> [i \in 1..Len(drawn) |-> drawn[i].label]]

\* whether session.run accepts the feed of the optimization step
FeedAccepted(feed) ==
  /\ FeedFits(feed.left_obs, obs_rank)
  /\ FeedFits(feed.left_acts, 0)
  /\ FeedFits(feed.right_obs, obs_rank)
  /\ FeedFits(feed.right_acts, 0)

\* what the agent logger holds when _write_training_summaries reads it:
\* its summary_step and the number of its recent paths
LoggerStates ==
  {[summary_step |-> s, recent_paths |-> r] :
     s \in 0..MaxSummaryStep, r \in 0..MaxRecentPaths}

\* the validation gate of _write_training_summaries
RunsValidation(logger) ==
  logger.recent_paths > 1 /\ logger.summary_step % ValidationPeriod = 0

\* the gate's outcomes over the states the logger can be in
ValidationGate == {RunsValidation(logger) : logger \in LoggerStates}

\* the calls of _write_training_summaries, in order, given the gate's outcome
write_training_summaries(validates) ==
  <<"log:predictor/loss", "get_recent_paths_with_padding">>
  \o (IF validates
      THEN <<"validation", "log:predictor/correlations">>
      ELSE <<>>)
  \o <<"log:predictor/num_training_iters", "log:labels/desired_labels",
       "log:labels/total_comparisons", "log:labels/labeled_comparisons">>

\* mutant: the global step advances although session.run refused the feed
train_predictor_StepOnError(c, comps, pick, validates) ==
  LET pool == labeled_decisive_comparisons(comps)
      drawn == [i \in 1..Len(pick) |-> pool[pick[i]]]
      feed == MinibatchFeed(c.base, c.added, drawn)
      ok == FeedAccepted(feed)
  IN  [comparisons |-> comps,
       weights |-> IF ok THEN c.weights + 1 ELSE c.weights,
       global_step |-> c.global_step + 1,
       iters |-> IF ok THEN c.iters + 1 ELSE c.iters,
       err |-> IF ok THEN "none" ELSE "ValueError",
       fed |-> feed,
       calls |-> IF ok
                 THEN <<"label_unlabeled_comparisons", "train_op">>
                      \o write_training_summaries(validates)
                 ELSE <<"label_unlabeled_comparisons">>]

\* train_predictor, given what the label sync left in the collector
\* (comps), the positions random.sample drew (pick) and whether the
\* logger's state opens the validation gate
train_predictor(c, comps, pick, validates) ==
  LET pool == labeled_decisive_comparisons(comps)
      drawn == [i \in 1..Len(pick) |-> pool[pick[i]]]
      feed == MinibatchFeed(c.base, c.added, drawn)
  IN  IF FeedAccepted(feed)
      THEN [comparisons |-> comps,
            weights |-> c.weights + 1,
            global_step |-> c.global_step + 1,
            iters |-> c.iters + 1,
            err |-> "none",
            fed |-> feed,
            calls |-> <<"label_unlabeled_comparisons", "train_op">>
                      \o write_training_summaries(validates)]
      ELSE [comparisons |-> comps,
            weights |-> c.weights,
            global_step |-> c.global_step,
            iters |-> c.iters,
            err |-> "ValueError",
            fed |-> feed,
            calls |-> <<"label_unlabeled_comparisons">>]

\* mutant: the minibatch is sized and drawn from the pool as it was before
\* the label sync
TrainOutcomes_StalePool(c, comps) ==
  UNION {{[train_predictor(c, comps, pick, validates) EXCEPT !.comparisons = labelled] :
            pick \in random_sample(Len(labeled_decisive_comparisons(comps)),
                                   minibatch_size(labeled_decisive_comparisons(comps))),
            validates \in ValidationGate} :
         labelled \in label_unlabeled_comparisons(comps)}

\* every way one train_predictor call can go from the collector state comps
TrainOutcomes(c, comps) ==
  UNION {{train_predictor(c, labelled, pick, validates) :
            pick \in random_sample(Len(labeled_decisive_comparisons(labelled)),
                                   minibatch_size(labeled_decisive_comparisons(labelled))),
            validates \in ValidationGate} :
         labelled \in label_unlabeled_comparisons(comps)}

\* the outcome of a call that does not train
NoTraining(c, comps) ==
  [comparisons |-> comps, weights |-> c.weights, global_step |-> c.global_step,
   iters |-> c.iters, err |-> "none", fed |-> c.fed, calls |-> <<>>]

Context ==
  [base |-> base_segments, added |-> added_segments, weights |-> weights,
   global_step |-> global_step, iters |-> elapsed_predictor_training_iters,
   fed |-> fed]

(***************************************************************************)
(* path_callback.                                                          *)
(***************************************************************************)
\* mutant: the cap compared with <=
ShouldAddSegment_AtCap(segment, nseg) == Truthy(segment) /\ nseg <= SegmentCap

ShouldAddSegment(segment, nseg) == Truthy(segment) /\ nseg < SegmentCap

\* mutant: a comparison is invented when the count has reached the desired one
ShouldInvent_Reached(ncomp, desired) == ncomp <= desired

ShouldInvent(ncomp, desired) == ncomp < desired

\* mutant: the threshold compared with >
ShouldTrain_Strict(steps) == steps > n_timesteps_per_predictor_training

ShouldTrain(steps) == steps >= n_timesteps_per_predictor_training

ShouldCheckpoint(steps) == steps >= n_timesteps_per_checkpoint

\* self.experiment_name
experiment_name == "experiment"

RECURSIVE Digits(_)
\* the decimal digits of n >= 0, most significant first
Digits(n) == IF n < 10 THEN <<n>> ELSE Append(Digits(n \div 10), n % 10)

\* '%0<width>d': zeros in front up to the width, never a digit dropped
ZeroPad(digits, width) ==
  IF Len(digits) >= width THEN digits ELSE Repeat(0, width - Len(digits)) \o digits

\* mutant: the index as it was before the increment
checkpoint_filename_Previous(n) ==
  [experiment |-> experiment_name, index |-> ZeroPad(Digits(n - 1), IndexWidth)]

\* _checkpoint_filename(): 'checkpoints/reward_model/%s/%08d' of the
\* experiment name and the checkpoint count
checkpoint_filename(n) ==
  [experiment |-> experiment_name, index |-> ZeroPad(Digits(n), IndexWidth)]

\* mutant: the variables are saved as they were when the call began
saver_save_Stale(files, n, w, gs) ==
  Append(files, [filename |-> checkpoint_filename(n), weights |-> weights,
                 global_step |-> global_step])

\* saver.save(sess, filename): every variable, under that filename
saver_save(files, n, w, gs) ==
  Append(files, [filename |-> checkpoint_filename(n), weights |-> w, global_step |-> gs])

\* the counter after the training branch
AfterTraining(steps, trained) == IF trained THEN 0 ELSE steps

\* the counter after the checkpoint branch
AfterCheckpoint(steps, saved) == IF saved THEN 0 ELSE steps

\* mutant: the comparison is invented before the sampled segment is added
path_callback_InventFirst(path, sampled) ==
  LET path_length == Len(path.obs)
      t1 == steps_since_last_training + path_length
      c1 == steps_since_last_checkpoint + path_length
  IN
  \E segment \in sampled :
    LET doAdd == ShouldAddSegment(segment, n_segments(base_segments, added_segments))
        added1 == IF doAdd THEN add_segment(added_segments, segment) ELSE added_segments
        doInvent == ShouldInvent(Len(comparisons), n_desired_labels)
        ctx == [Context EXCEPT !.added = added1]
    IN
    \E comps1 \in (IF doInvent
                   THEN invent_comparison(comparisons, base_segments, added_segments)
                   ELSE {comparisons}) :
      \E tr \in (IF ShouldTrain(t1) THEN TrainOutcomes(ctx, comps1)
                 ELSE {NoTraining(ctx, comps1)}) :
        LET trained == ShouldTrain(t1) /\ tr.err = "none"
            doSave == tr.err = "none" /\ ShouldCheckpoint(c1)
        IN
        /\ added_segments' = added1
        /\ comparisons' = tr.comparisons
        /\ weights' = tr.weights
        /\ global_step' = tr.global_step
        /\ elapsed_predictor_training_iters' = tr.iters
        /\ steps_since_last_training' = AfterTraining(t1, trained)
        /\ num_checkpoints' = IF doSave THEN num_checkpoints + 1 ELSE num_checkpoints
        /\ checkpoint_files' =
             IF doSave
             THEN saver_save(checkpoint_files, num_checkpoints + 1, tr.weights, tr.global_step)
             ELSE checkpoint_files
        /\ steps_since_last_checkpoint' = AfterCheckpoint(c1, doSave)
        /\ err' = tr.err
        /\ fed' = tr.fed
        /\ calls' = (IF doInvent THEN <<"invent_comparison">> ELSE <<>>)
                    \o (IF doAdd THEN <<"add_segment">> ELSE <<>>)
                    \o (IF ShouldTrain(t1) THEN <<"train_predictor">> ELSE <<>>)
                    \o tr.calls
                    \o (IF doSave THEN <<"saver.save">> ELSE <<>>)
        /\ cbTrainCalls' = cbTrainCalls + (IF ShouldTrain(t1) THEN 1 ELSE 0)
        /\ totalSteps' = totalSteps + path_length

path_callback(path, sampled) ==
  LET path_length == Len(path.obs)
      t1 == steps_since_last_training + path_length
      c1 == steps_since_last_checkpoint + path_length
  IN
  \E segment \in sampled :
    LET doAdd == ShouldAddSegment(segment, n_segments(base_segments, added_segments))
        added1 == IF doAdd THEN add_segment(added_segments, segment) ELSE added_segments
        doInvent == ShouldInvent(Len(comparisons), n_desired_labels)
        ctx == [Context EXCEPT !.added = added1]
    IN
    \E comps1 \in (IF doInvent
                   THEN invent_comparison(comparisons, base_segments, added1)
                   ELSE {comparisons}) :
      \E tr \in (IF ShouldTrain(t1) THEN TrainOutcomes(ctx, comps1)
                 ELSE {NoTraining(ctx, comps1)}) :
        LET trained == ShouldTrain(t1) /\ tr.err = "none"
            doSave == tr.err = "none" /\ ShouldCheckpoint(c1)
        IN
        /\ added_segments' = added1
        /\ comparisons' = tr.comparisons
        /\ weights' = tr.weights
        /\ global_step' = tr.global_step
        /\ elapsed_predictor_training_iters' = tr.iters
        /\ steps_since_last_training' = AfterTraining(t1, trained)
        /\ num_checkpoints' = IF doSave THEN num_checkpoints + 1 ELSE num_checkpoints
        /\ checkpoint_files' =
             IF doSave
             THEN saver_save(checkpoint_files, num_checkpoints + 1, tr.weights, tr.global_step)
             ELSE checkpoint_files
        /\ steps_since_last_checkpoint' = AfterCheckpoint(c1, doSave)
        /\ err' = tr.err
        /\ fed' = tr.fed
        /\ calls' = (IF doAdd THEN <<"add_segment">> ELSE <<>>)
                    \o (IF doInvent THEN <<"invent_comparison">> ELSE <<>>)
                    \o (IF ShouldTrain(t1) THEN <<"train_predictor">> ELSE <<>>)
                    \o tr.calls
                    \o (IF doSave THEN <<"saver.save">> ELSE <<>>)
        /\ cbTrainCalls' = cbTrainCalls + (IF ShouldTrain(t1) THEN 1 ELSE 0)
        /\ totalSteps' = totalSteps + path_length

PathCallback ==
  \E n \in PathLens :
    /\ nCalls < MaxCalls
    /\ totalSteps + PathLength[n] <= MaxTotalSteps
    /\ path_callback(Paths[n], SampledSegments[n])
    /\ nCalls' = nCalls + 1
    /\ lastOp' = "path_callback"
    /\ ret' = NoResult
    /\ arg' = [NoArg EXCEPT !.length = PathLength[n]]
    /\ UNCHANGED <<base_segments, n_desired_labels, trad_logged, directOps>>

(***************************************************************************)
(* The other operations of ComparisonRewardPredictor.                      *)
(***************************************************************************)
\* a direct train_predictor() call (pretraining calls it this way)
TrainPredictor ==
  /\ directOps < MaxDirectOps
  /\ \E tr \in TrainOutcomes(Context, comparisons) :
       /\ comparisons' = tr.comparisons
       /\ weights' = tr.weights
       /\ global_step' = tr.global_step
       /\ elapsed_predictor_training_iters' = tr.iters
       /\ err' = tr.err
       /\ fed' = tr.fed
       /\ calls' = tr.calls
  /\ directOps' = directOps + 1
  /\ lastOp' = "train_predictor"
  /\ ret' = NoResult
  /\ arg' = NoArg
  /\ UNCHANGED <<steps_since_last_training, steps_since_last_checkpoint,
                 num_checkpoints, checkpoint_files, base_segments, added_segments,
                 n_desired_labels, trad_logged, totalSteps, nCalls, cbTrainCalls>>

\* predict_reward(path)
PredictRewardOn(path) ==
  /\ ret' = predict_reward(path, weights)
  /\ arg' = [obs |-> path.obs, actions |-> path.actions,
             original_rewards |-> path.original_rewards, length |-> Len(path.obs)]
  /\ lastOp' = "predict_reward"
  /\ err' = "none"
  /\ calls' = <<"run:q_value">>
  /\ UNCHANGED <<progVars, fed, totalSteps, nCalls, cbTrainCalls, directOps>>

PredictReward == \E n \in ShortPaths : PredictRewardOn(Paths[n])

\* tf.train.latest_checkpoint(dir): the checkpoint saved last, if any
latest_checkpoint(files) == IF files = <<>> THEN <<>> ELSE <<files[Len(files)]>>

\* load_model_from_checkpoint(): restore every saved variable from the
\* latest checkpoint; saver.restore refuses a missing checkpoint
LoadModelFromCheckpoint ==
  /\ directOps < MaxDirectOps
  /\ LET found == latest_checkpoint(checkpoint_files)
     IN  IF found = <<>>
         THEN /\ err' = "ValueError"
              /\ UNCHANGED modelVars
         ELSE /\ err' = "none"
              /\ weights' = found[1].weights
              /\ global_step' = found[1].global_step
  /\ directOps' = directOps + 1
  /\ lastOp' = "load_model_from_checkpoint"
  /\ calls' = <<"saver.restore">>
  /\ ret' = NoResult
  /\ arg' = NoArg
  /\ UNCHANGED <<predictorVars, checkpoint_files, collectorVars, n_desired_labels,
                 trad_logged, fed, totalSteps, nCalls, cbTrainCalls>>

(***************************************************************************)
(* The environment of the predictor.                                       *)
(***************************************************************************)
\* the label schedule raises its desired count
ScheduleGrows ==
  /\ n_desired_labels < MaxDesiredLabels
  /\ n_desired_labels' = n_desired_labels + 1
  /\ UNCHANGED <<predictorVars, modelVars, checkpoint_files, collectorVars,
                 trad_logged, historyVars>>

Next ==
  \/ PathCallback
  \/ TrainPredictor
  \/ PredictReward
  \/ LoadModelFromCheckpoint
  \/ ScheduleGrows

Spec == Init /\ [][Next]_vars

\* the collector already holds segments up to its cap
InitCap == InitWith({SegmentCap - 1, SegmentCap}, {0})

\* the driver alone, with the label schedule around it
NextCap ==
  \/ PathCallback
  \/ ScheduleGrows

SpecCap == InitCap /\ [][NextCap]_vars

(***************************************************************************)
(* Inference on small paths with every content, the validation pass, and   *)
(* TraditionalRLRewardPredictor.                                           *)
(***************************************************************************)
\* the environment's reward for a step (it differs from every score)
TrueReward(o, a) == 0 - (1 + o + 2 * a)

PathsOfLength(T) ==
  {[obs |-> o, actions |-> a,
    original_rewards |-> [i \in 1..T |-> TrueReward(o[i], a[i])]] :
     o \in [1..T -> 0..1], a \in [1..T -> 0..(n_actions - 1)]}

TinyPaths == UNION {PathsOfLength(T) : T \in 1..MaxPathLen}

\* the path of length T whose only observation 1 is at step k, actions 0
MarkedPath(T, k) ==
  [obs |-> [i \in 1..T |-> IF i = k THEN 1 ELSE 0],
   actions |-> [i \in 1..T |-> 0],
   original_rewards |-> [i \in 1..T |-> TrueReward(IF i = k THEN 1 ELSE 0, 0)]]

\* recent paths, padded to a common length by the logger
RecentBatches ==
  UNION {[1..B -> {MarkedPath(T, k) : k \in 1..T}] :
           B \in 2..MaxBatch, T \in 1..MaxPathLen}

PredictRewardTiny == \E path \in TinyPaths : PredictRewardOn(path)

\* the validation pass of _write_training_summaries over recent_paths
validation(recent, w) ==
  LET validation_obs == [b \in 1..Len(recent) |-> recent[b].obs]
      validation_acts == [b \in 1..Len(recent) |-> recent[b].actions]
      q == q_value(validation_obs, validation_acts, w)
      reward_true == [b \in 1..Len(recent) |-> recent[b].original_rewards]
  IN  [q_value |-> q,
       ep_reward_pred |-> reduce_sum_axis1(q),
       ep_reward_true |-> reduce_sum_axis1(reward_true)]

ValidationPass ==
  \E recent \in RecentBatches :
    /\ ret' = validation(recent, weights)
    /\ arg' = [obs |-> [b \in 1..Len(recent) |-> recent[b].obs],
               actions |-> [b \in 1..Len(recent) |-> recent[b].actions],
               original_rewards |-> [b \in 1..Len(recent) |-> recent[b].original_rewards],
               length |-> Len(recent)]
    /\ lastOp' = "validation"
    /\ err' = "none"
    /\ calls' = <<"run:q_value", "log:predictor/correlations">>
    /\ UNCHANGED <<progVars, fed, totalSteps, nCalls, cbTrainCalls, directOps>>

\* mutant: the observations returned in place of the rewards
trad_predict_reward_Obs(path) == path.obs

\* TraditionalRLRewardPredictor.predict_reward(path)
trad_predict_reward(path) == path.original_rewards

\* TraditionalRLRewardPredictor.path_callback(path): pass
trad_path_callback(logged, path) == logged

TradPredictReward ==
  \E path \in TinyPaths :
    /\ ret' = trad_predict_reward(path)
    /\ arg' = [obs |-> path.obs, actions |-> path.actions,
               original_rewards |-> path.original_rewards, length |-> Len(path.obs)]
    /\ lastOp' = "trad.predict_reward"
    /\ err' = "none"
    /\ calls' = <<>>
    /\ UNCHANGED <<progVars, fed, totalSteps, nCalls, cbTrainCalls, directOps>>

TradPathCallback ==
  \E path \in TinyPaths :
    /\ trad_logged' = trad_path_callback(trad_logged, path)
    /\ ret' = NoResult
    /\ arg' = [obs |-> path.obs, actions |-> path.actions,
               original_rewards |-> path.original_rewards, length |-> Len(path.obs)]
    /\ lastOp' = "trad.path_callback"
    /\ err' = "none"
    /\ calls' = <<>>
    /\ UNCHANGED <<predictorVars, modelVars, checkpoint_files, collectorVars,
                   n_desired_labels, fed, totalSteps, nCalls, cbTrainCalls, directOps>>

\* a predictor whose weights are at any of the versions training produces
InitInference == InitWith({0}, 0..MaxWeights)

NextInference ==
  \/ PredictRewardTiny
  \/ ValidationPass
  \/ TradPredictReward
  \/ TradPathCallback

SpecInference == InitInference /\ [][NextInference]_vars

(***************************************************************************)
(* _build_model: the two action streams handed to the scorer.              *)
(***************************************************************************)
\* the action segments a placeholder can be fed: action indices when the
\* space is discrete, vectors of act_shape (one component here) otherwise
ActionSegments(discrete) ==
  UNION {[1..T -> (IF discrete THEN 0..(n_actions - 1) ELSE {<<0>>, <<1>>})] :
           T \in 1..MaxPathLen}

\* the local names bound by the branch of _build_model that runs
build_locals(discrete, act_placeholder, alt_act_placeholder) ==
  IF discrete
  THEN ("segment_act" :>
          [t \in 1..Len(act_placeholder) |-> one_hot(act_placeholder[t], n_actions)])
       @@ ("segment_alt_act" :>
          [t \in 1..Len(alt_act_placeholder) |-> one_hot(alt_act_placeholder[t], n_actions)])
  ELSE ("segment_act" :> act_placeholder)
       @@ ("segement_alt_act" :> alt_act_placeholder)

\* _build_model up to the two _predict_rewards calls: the actions each
\* stream passes to the scorer, or the error of reading an unbound local
build_model(discrete, act_placeholder, alt_act_placeholder) ==
  LET locals == build_locals(discrete, act_placeholder, alt_act_placeholder)
  IN  IF "segment_act" \notin DOMAIN locals \/ "segment_alt_act" \notin DOMAIN locals
      THEN [err |-> "UnboundLocalError", streams |-> NoResult]
      ELSE [err |-> "none",
            streams |-> [left |-> locals["segment_act"],
                         right |-> locals["segment_alt_act"]]]

\* __init__ calls _build_model once, on the object under construction
BuildModel ==
  /\ lastOp = "init"
  /\ \E discrete \in BOOLEAN :
    \E left \in ActionSegments(discrete), right \in ActionSegments(discrete) :
      /\ err' = build_model(discrete, left, right).err
      /\ ret' = build_model(discrete, left, right).streams
      /\ arg' = [discrete |-> discrete, left |-> left, right |-> right]
      /\ lastOp' = "_build_model"
      /\ calls' = <<>>
      /\ UNCHANGED <<progVars, fed, totalSteps, nCalls, cbTrainCalls, directOps>>

(***************************************************************************)
(* _build_model: the preference loss over the two streams' segment sums.   *)
(* A cross entropy is -log of the probability the softmax gives the        *)
(* labelled side; it is carried as that probability, an exact fraction,    *)
(* with 2 as the base of the exponential.                                  *)
(***************************************************************************)
RECURSIVE GCD(_, _)
GCD(a, b) == IF b = 0 THEN a ELSE GCD(b, a % b)

\* the fraction in lowest terms
Reduced(frac) ==
  <<frac[1] \div GCD(frac[1], frac[2]), frac[2] \div GCD(frac[1], frac[2])>>

\* tf.stack([segment_reward_pred_left, segment_reward_pred_right], axis=1)
reward_logits(segment_reward_pred_left, segment_reward_pred_right) ==
  [b \in 1..Len(segment_reward_pred_left) |->
     <<segment_reward_pred_left[b], segment_reward_pred_right[b]>>]

\* mutant: the first logit is taken whatever the label
sparse_softmax_cross_entropy_FirstLogit(logits, labels) ==
  [b \in 1..Len(logits) |->
     <<2 ^ logits[b][1], 2 ^ logits[b][1] + 2 ^ logits[b][2]>>]

\* tf.nn.sparse_softmax_cross_entropy_with_logits: per row, the softmax
\* probability of the logit the label points at
sparse_softmax_cross_entropy(logits, labels) ==
  [b \in 1..Len(logits) |->
     <<2 ^ logits[b][labels[b] + 1], 2 ^ logits[b][1] + 2 ^ logits[b][2]>>]

RECURSIVE ProductOf(_, _)
\* the product of the k-th components of the rows
ProductOf(rows, k) ==
  IF rows = <<>> THEN 1 ELSE Head(rows)[k] * ProductOf(Tail(rows), k)

\* tf.reduce_mean(data_loss): the mean of the rows' -log is -log of the
\* product of their probabilities, over the number of rows
reduce_mean(data_loss) ==
  [rows |-> Len(data_loss),
   likelihood |-> Reduced(<<ProductOf(data_loss, 1), ProductOf(data_loss, 2)>>)]

\* self.loss_op
loss_op(segment_reward_pred_left, segment_reward_pred_right, labels) ==
  reduce_mean(
    sparse_softmax_cross_entropy(
      reward_logits(segment_reward_pred_left, segment_reward_pred_right), labels))

\* the loss of one batch of segment sums and labels, on the graph as built
LossOp ==
  /\ lastOp = "init"
  /\ \E B \in 1..MaxBatch :
    \E left \in [1..B -> 0..MaxScore], right \in [1..B -> 0..MaxScore],
       labels \in [1..B -> {0, 1}] :
      /\ ret' = loss_op(left, right, labels)
      /\ arg' = [left |-> left, right |-> right, labels |-> labels]
      /\ lastOp' = "loss_op"
      /\ err' = "none"
      /\ calls' = <<"run:loss_op">>
      /\ UNCHANGED <<progVars, fed, totalSteps, nCalls, cbTrainCalls, directOps>>

NextBuild ==
  \/ BuildModel
  \/ LossOp

SpecBuild == Init /\ [][NextBuild]_vars

(***************************************************************************)
(* train_predictor on collectors that already hold comparisons: every      *)
(* small collection over two unlike segments, and collections larger than  *)
(* the minibatch.                                                          *)
(***************************************************************************)
\* the k-th stored segment: observation 1 at step k, action k - 1 throughout
StoredSegment(k) ==
  [obs |-> [i \in 1..frames_per_segment |-> IF i = k THEN 1 ELSE 0],
   actions |-> [i \in 1..frames_per_segment |-> k - 1],
   original_rewards |-> [i \in 1..frames_per_segment |-> 0]]

StoredSegments == <<StoredSegment(1), StoredSegment(2)>>

ComparisonsOver ==
  {[left |-> l, right |-> r, label |-> lab] :
     l \in 1..Len(StoredSegments), r \in 1..Len(StoredSegments), lab \in Labels}

SmallCollections == UNION {[1..n -> ComparisonsOver] : n \in 0..MaxPool}

\* n comparisons, all labelled, every 65th a tie
LargeCollection(n) ==
  [i \in 1..n |->
     [left |-> 1 + (i % 2),
      right |-> 1 + ((i \div 2) % 2),
      label |-> IF i % 65 = 0 THEN TieLabel ELSE (i \div 4) % 2]]

\* their pools hold exactly MaxMinibatch and MaxMinibatch + 1 comparisons
LargeCollections ==
  {LargeCollection(MaxMinibatch + 1), LargeCollection(MaxMinibatch + 3)}

InitMinibatch ==
  /\ steps_since_last_training = 0
  /\ steps_since_last_checkpoint = 0
  /\ elapsed_predictor_training_iters = 0
  /\ num_checkpoints = 0
  /\ weights = 0
  /\ global_step = 0
  /\ checkpoint_files = <<>>
  /\ base_segments = 0
  /\ added_segments = StoredSegments
  /\ comparisons \in SmallCollections \cup LargeCollections
  /\ n_desired_labels = 0
  /\ trad_logged = 0
  /\ lastOp = "init"
  /\ err = "none"
  /\ calls = <<>>
  /\ ret = NoResult
  /\ arg = NoArg
  /\ fed = NoFeed
  /\ totalSteps = 0
  /\ nCalls = 0
  /\ cbTrainCalls = 0
  /\ directOps = 0

NextMinibatch == TrainPredictor

SpecMinibatch == InitMinibatch /\ [][NextMinibatch]_vars

(***************************************************************************)
(* The claims.                                                             *)
(***************************************************************************)
\* the step is one path_callback call
IsCallbackStep == nCalls' = nCalls + 1

\* only path_callback calls (and the environment) have acted so far
OnlyCallbacks == directOps = 0 /\ lastOp = "path_callback"

\* C1: over path_callback calls on a fresh predictor whose path lengths sum
\* to exactly 2,000, train_predictor is invoked exactly once, in the call
\* that reaches 2,000 (never before), and _steps_since_last_training is 0
\* after that call.
C1_TrainOnceAt2000 ==
  OnlyCallbacks =>
    /\ totalSteps < n_timesteps_per_predictor_training => cbTrainCalls = 0
    /\ totalSteps = n_timesteps_per_predictor_training =>
         /\ cbTrainCalls = 1
         /\ "train_predictor" \in Range(calls)
         /\ steps_since_last_training = 0

\* C2: over path_callback calls on a fresh predictor whose path lengths sum
\* to exactly 20,000, a checkpoint is saved exactly once and
\* _steps_since_last_checkpoint is 0 afterwards; before that the checkpoint
\* counter is the sum of the path lengths, whatever the training counter did.
C2_CheckpointOnceAt20000 ==
  OnlyCallbacks =>
    /\ totalSteps < n_timesteps_per_checkpoint =>
         /\ num_checkpoints = 0
         /\ steps_since_last_checkpoint = totalSteps
    /\ totalSteps = n_timesteps_per_checkpoint =>
         /\ num_checkpoints = 1
         /\ Len(checkpoint_files) = 1
         /\ steps_since_last_checkpoint = 0

\* C3: a train_predictor call that finds the labeled-decisive pool empty
\* when it draws the minibatch raises no error and runs no optimization step.
C3_EmptyPoolIsNoOp ==
  ("label_unlabeled_comparisons" \in Range(calls)
     /\ labeled_decisive_comparisons(comparisons) = <<>>)
  => (err = "none" /\ "train_op" \notin Range(calls))

\* C4: a path_callback call that finds 1000 or more segments in the store
\* calls no add_segment, even when sampling gave a segment; a call adds at
\* most one segment, and a store of at most 1000 segments stays so.
C4_NoAddAtCap ==
  [][IsCallbackStep =>
       /\ n_segments(base_segments, added_segments) >= SegmentCap =>
            /\ "add_segment" \notin Range(calls')
            /\ added_segments' = added_segments
       /\ n_segments(base_segments, added_segments) < SegmentCap =>
            Len(added_segments') <= Len(added_segments) + 1
       /\ n_segments(base_segments, added_segments) <= SegmentCap =>
            n_segments(base_segments', added_segments') <= SegmentCap]_vars

\* C4 witness: the store held 1000 segments from the start, a call with a
\* path long enough to sample from has run, and nothing was added
C4_Witness ==
  /\ base_segments = SegmentCap
  /\ lastOp = "path_callback"
  /\ arg.length >= frames_per_segment
  /\ added_segments = <<>>

\* C5: a path_callback call with a path shorter than the segment length
\* calls no add_segment, advances both counters by the path length, and
\* still invents a comparison, trains and saves a checkpoint in that call
\* whenever the condition of each holds.
C5_ShortPathStillDrives ==
  [][(IsCallbackStep /\ arg'.length < frames_per_segment) =>
       /\ "add_segment" \notin Range(calls')
       /\ added_segments' = added_segments
       /\ steps_since_last_training'
            \in {0, steps_since_last_training + arg'.length}
       /\ steps_since_last_checkpoint'
            \in {0, steps_since_last_checkpoint + arg'.length}
       /\ Len(comparisons) < n_desired_labels =>
            "invent_comparison" \in Range(calls')
       /\ steps_since_last_training + arg'.length
            >= n_timesteps_per_predictor_training =>
            "train_predictor" \in Range(calls')
       /\ steps_since_last_checkpoint + arg'.length
            >= n_timesteps_per_checkpoint =>
            "saver.save" \in Range(calls')]_vars

\* C6: a path_callback call invokes invent_comparison exactly once when the
\* collector's comparison count is below n_desired_labels at the check, and
\* not at all otherwise; a call creates at most one comparison, and none when
\* the count has reached the desired one.
C6_InventOncePerCall ==
  [][IsCallbackStep =>
       /\ Count(calls', "invent_comparison")
            = (IF Len(comparisons) < n_desired_labels THEN 1 ELSE 0)
       /\ Len(comparisons')
            <= Len(comparisons) + Count(calls', "invent_comparison")]_vars

\* C6 witness: a call that found the count at the desired one, and invented
\* nothing
C6_Witness ==
  /\ lastOp = "path_callback"
  /\ n_desired_labels > 0
  /\ Len(comparisons) = n_desired_labels
  /\ "invent_comparison" \notin Range(calls)

\* C7 (as stated): the weights and the global step change only in the
\* optimization step of train_predictor.
C7_WeightsChangeOnlyInTraining ==
  [][modelVars' # modelVars => "train_op" \in Range(calls')]_vars

\* C7 (amended): the weights and the global step change only in the
\* optimization step of train_predictor and in the restore of
\* load_model_from_checkpoint; predict_reward, the validation pass, the
\* checkpoint save and the rest of path_callback leave them unchanged.
C7_WeightsChangeOnlyInTrainingOrRestore ==
  [][modelVars' # modelVars =>
       \/ "train_op" \in Range(calls')
       \/ lastOp' = "load_model_from_checkpoint"]_vars

\* C7 witness: a restore has put back weights older than the last training
C7_Witness ==
  /\ lastOp = "load_model_from_checkpoint"
  /\ err = "none"
  /\ global_step < elapsed_predictor_training_iters

\* C8: the validation pass runs on exactly the train_predictor calls that
\* are a 10th training iteration; the loss and the running counters are
\* logged on every training iteration.
C8_ValidationEveryTenth ==
  "train_op" \in Range(calls) =>
    /\ "validation" \in Range(calls)
         <=> elapsed_predictor_training_iters % ValidationPeriod = 0
    /\ "log:predictor/loss" \in Range(calls)
    /\ "log:predictor/num_training_iters" \in Range(calls)

\* C9: TraditionalRLRewardPredictor.predict_reward(path) returns exactly
\* path["original_rewards"], and neither it nor path_callback changes any
\* state.
C9_BaselinePassThrough ==
  [][/\ lastOp' = "trad.predict_reward" =>
          /\ ret' = arg'.original_rewards
          /\ UNCHANGED progVars
     /\ lastOp' = "trad.path_callback" => UNCHANGED progVars]_vars

\* C9 witness: the baseline returned the rewards of a two-step path
C9_Witness ==
  /\ lastOp = "trad.predict_reward"
  /\ Len(ret) = 2
  /\ ret[1] # ret[2]
  /\ ret # arg.obs

\* the score of step t of a segment, straight from the scorer
StepScore(w, obs, actions, t) == Score(w, obs[t], one_hot(actions[t], n_actions))

\* C10: predict_reward(path) returns one score per timestep, in path order
\* and not summed; for a batch of segments the scores have shape (batch
\* size, segment length) and their sum over time is one scalar per segment.
C10_PerTimestepScores ==
  /\ lastOp = "predict_reward" =>
       /\ Len(ret) = Len(arg.obs)
       /\ \A t \in 1..Len(arg.obs) :
            ret[t] = StepScore(weights, arg.obs, arg.actions, t)
  /\ lastOp = "validation" =>
       /\ Len(ret.q_value) = Len(arg.obs)
       /\ Len(ret.ep_reward_pred) = Len(arg.obs)
       /\ \A b \in 1..Len(arg.obs) :
            /\ Len(ret.q_value[b]) = Len(arg.obs[b])
            /\ \A t \in 1..Len(arg.obs[b]) :
                 ret.q_value[b][t] = StepScore(weights, arg.obs[b], arg.actions[b], t)
            /\ ret.ep_reward_pred[b] = SumSeq(ret.q_value[b])

\* C10 witness: two segments of two steps were scored, and their rows differ
C10_Witness ==
  /\ lastOp = "validation"
  /\ Len(arg.obs) = 2
  /\ Len(arg.obs[1]) = 2
  /\ ret.q_value[1] # ret.q_value[2]
  /\ ret.q_value[1][1] # ret.q_value[1][2]

\* the actions a stream is to pass to the scorer
ScorerActions(discrete, actions) ==
  IF discrete
  THEN [t \in 1..Len(actions) |->
          [k \in 1..n_actions |-> IF k = actions[t] + 1 THEN 1 ELSE 0]]
  ELSE actions

\* C11: for discrete and for continuous action spaces, model construction
\* ends without error and each stream passes its own actions to the scorer,
\* one-hot of width n_actions when discrete and unchanged when continuous.
C11_BuildModelBothSpaces ==
  lastOp = "_build_model" =>
    /\ err = "none"
    /\ ret = [left |-> ScorerActions(arg.discrete, arg.left),
              right |-> ScorerActions(arg.discrete, arg.right)]

\* C16: the preference loss is unchanged when the left and right segment
\* sums are swapped and every label is flipped (0 <-> 1).
C16_LossSwapSymmetry ==
  lastOp = "loss_op" =>
    ret = loss_op(arg.right, arg.left,
                  [b \in 1..Len(arg.labels) |-> 1 - arg.labels[b]])

\* C16 witness: a batch of two pairs with both labels, unequal sums in each
\* pair, and a loss that is not that of the unswapped pairs with the labels
\* flipped
C16_Witness ==
  /\ lastOp = "loss_op"
  /\ Len(arg.labels) = 2
  /\ arg.labels[1] # arg.labels[2]
  /\ \A b \in 1..2 : arg.left[b] # arg.right[b]
  /\ ret # loss_op(arg.left, arg.right,
                   [b \in 1..Len(arg.labels) |-> 1 - arg.labels[b]])

\* the step is one train_predictor call, made directly or by path_callback
IsTrainingStep ==
  /\ nCalls' # nCalls \/ directOps' # directOps
  /\ "label_unlabeled_comparisons" \in Range(calls')

\* C12: in every train_predictor call label_unlabeled_comparisons has
\* returned before the labeled-decisive pool is read: it is called once,
\* before the optimization step, and the minibatch is sized and drawn from
\* the pool as the sync left it (labels attached earlier are kept).
C12_LabelSyncBeforeDraw ==
  [][IsTrainingStep =>
       /\ Count(calls', "label_unlabeled_comparisons") = 1
       /\ Precedes(calls', "label_unlabeled_comparisons", "train_op")
       /\ Len(fed'.labels)
            = minibatch_size(labeled_decisive_comparisons(comparisons'))
       /\ \A i \in 1..Len(fed'.labels) : fed'.labels[i] \in {0, 1}
       /\ Len(comparisons') >= Len(comparisons)
       /\ \A i \in 1..Len(comparisons) :
            comparisons[i].label # NoLabel => comparisons'[i] = comparisons[i]]_vars

\* C12 witness: the only call so far invented a comparison, which was
\* labelled by the sync of the same call and trained on
C12_Witness ==
  /\ nCalls = 1
  /\ directOps = 0
  /\ lastOp = "path_callback"
  /\ "invent_comparison" \in Range(calls)
  /\ "train_op" \in Range(calls)
  /\ Len(fed.labels) = 1

\* C13: within one path_callback call add_segment, when made, comes before
\* the desired-comparison check and invent_comparison, so the segment added
\* in the call is in the store the comparison is invented from.
C13_AddBeforeInvent ==
  [][IsCallbackStep =>
       /\ Precedes(calls', "add_segment", "invent_comparison")
       /\ ("add_segment" \in Range(calls') /\ "invent_comparison" \in Range(calls')) =>
            Len(comparisons') = Len(comparisons) + 1
       /\ Len(comparisons') > Len(comparisons) =>
            LET made == comparisons'[Len(comparisons')]
            IN  {made.left, made.right}
                  \subseteq 1..n_segments(base_segments', added_segments')]_vars

\* C13 witness: the first call on an empty store added a segment and paired
\* it in the comparison it invented
C13_Witness ==
  /\ nCalls = 1
  /\ lastOp = "path_callback"
  /\ base_segments = 0
  /\ Len(added_segments) = 1
  /\ Len(comparisons) = 1
  /\ comparisons[1].left = 1
  /\ comparisons[1].right = 1
  /\ Precedes(calls, "add_segment", "invent_comparison")
  /\ Count(calls, "add_segment") = 1
  /\ Count(calls, "invent_comparison") = 1

\* C14: the minibatch handed to the optimization step holds exactly
\* min(128, pool size) comparisons, distinct members of the labeled-decisive
\* pool, each with its left segment in the primary stream, its right segment
\* in the alternate stream and its label at the same batch position.
C14_MinibatchContents ==
  lastOp = "train_predictor" =>
    LET pool == labeled_decisive_comparisons(comparisons)
        size == Len(fed.labels)
    IN  /\ size = Min(MaxMinibatch, Len(pool))
        /\ Len(fed.left_obs) = size /\ Len(fed.left_acts) = size
        /\ Len(fed.right_obs) = size /\ Len(fed.right_acts) = size
        /\ \E p \in random_sample(Len(pool), size) :
             /\ \A i, j \in 1..size : i # j => p[i] # p[j]
             /\ \A i \in 1..size :
                  LET comp == pool[p[i]]
                      left == get_segment(base_segments, added_segments, comp.left)
                      right == get_segment(base_segments, added_segments, comp.right)
                  IN  /\ comp.label \in {0, 1}
                      /\ fed.labels[i] = comp.label
                      /\ fed.left_obs[i] = left.obs
                      /\ fed.left_acts[i] = left.actions
                      /\ fed.right_obs[i] = right.obs
                      /\ fed.right_acts[i] = right.actions

\* C14 witness: a pool larger than 128 was trained on with 128 comparisons,
\* the first of them pairing two unlike segments
C14_Witness ==
  /\ lastOp = "train_predictor"
  /\ err = "none"
  /\ "train_op" \in Range(calls)
  /\ Len(labeled_decisive_comparisons(comparisons)) > MaxMinibatch
  /\ Len(fed.labels) = MaxMinibatch
  /\ fed.left_obs[1] # fed.right_obs[1]

RECURSIVE DecimalValue(_)
\* the number a sequence of decimal digits writes
DecimalValue(digits) ==
  IF digits = <<>> THEN 0
  ELSE 10 * DecimalValue(SubSeq(digits, 1, Len(digits) - 1)) + digits[Len(digits)]

\* C15: the k-th checkpoint a predictor saves is written under its
\* experiment name with the 8-digit zero-padded index k (the first is
\* 00000001), so no two saves write to the same path.
C15_CheckpointIndex ==
  /\ num_checkpoints = Len(checkpoint_files)
  /\ \A k \in 1..Len(checkpoint_files) :
       LET filename == checkpoint_files[k].filename
       IN  /\ filename.experiment = experiment_name
           /\ Len(filename.index) = 8
           /\ \A i \in 1..Len(filename.index) : filename.index[i] \in 0..9
           /\ DecimalValue(filename.index) = k
  /\ \A j, k \in 1..Len(checkpoint_files) :
       j # k => checkpoint_files[j].filename # checkpoint_files[k].filename

\* C15 witness: two checkpoints were saved, as 00000001 and 00000002
C15_Witness ==
  /\ Len(checkpoint_files) = 2
  /\ checkpoint_files[1].filename.index = <<0, 0, 0, 0, 0, 0, 0, 1>>
  /\ checkpoint_files[2].filename.index = <<0, 0, 0, 0, 0, 0, 0, 2>>

\* C17: whenever a path_callback call returns normally,
\* 0 <= _steps_since_last_training < 2,000 and
\* 0 <= _steps_since_last_checkpoint < 20,000.
C17_CountersBelowThresholds ==
  (lastOp = "path_callback" /\ err = "none") =>
    /\ 0 <= steps_since_last_training
    /\ steps_since_last_training < n_timesteps_per_predictor_training
    /\ 0 <= steps_since_last_checkpoint
    /\ steps_since_last_checkpoint < n_timesteps_per_checkpoint

\* C17 witness: the second call crossed both thresholds, returned normally
\* and left both counters at 0
C17_Witness ==
  /\ lastOp = "path_callback"
  /\ err = "none"
  /\ nCalls = 2
  /\ "train_op" \in Range(calls)
  /\ "saver.save" \in Range(calls)
  /\ arg.length < n_timesteps_per_checkpoint
  /\ steps_since_last_training = 0
  /\ steps_since_last_checkpoint = 0

\* C18: one path_callback call triggers at most one training pass and at
\* most one checkpoint, a counter that triggers is reset to 0 and not
\* reduced by the threshold, and so after any sequence of calls the number
\* of training passes triggered is at most
\* min(number of calls, floor(total steps / 2,000)).
C18_AtMostOnePassPerCall ==
  [][IsCallbackStep =>
       /\ Count(calls', "train_predictor") <= 1
       /\ Count(calls', "saver.save") <= 1
       /\ "train_op" \in Range(calls') => steps_since_last_training' = 0
       /\ "saver.save" \in Range(calls') => steps_since_last_checkpoint' = 0
       /\ cbTrainCalls' <= Min(nCalls',
                               totalSteps' \div n_timesteps_per_predictor_training)]_vars

\* C19: when one path_callback call trains and saves a checkpoint, the
\* training pass is over before the save: the save is the last thing the
\* call does, and the checkpoint holds the weights and the global step the
\* optimization step of that call produced.
C19_TrainBeforeCheckpoint ==
  [][(IsCallbackStep /\ "train_predictor" \in Range(calls')
        /\ "saver.save" \in Range(calls')) =>
       /\ "train_op" \in Range(calls')
       /\ Count(calls', "saver.save") = 1
       /\ calls'[Len(calls')] = "saver.save"
       /\ Len(checkpoint_files') = Len(checkpoint_files) + 1
       /\ weights' = weights + 1
       /\ global_step' = global_step + 1
       /\ checkpoint_files'[Len(checkpoint_files')].weights = weights'
       /\ checkpoint_files'[Len(checkpoint_files')].global_step = global_step']_vars

\* C19 witness: the first call trained and saved, and the checkpoint holds
\* the weights after the step
C19_Witness ==
  /\ nCalls = 1
  /\ directOps = 0
  /\ lastOp = "path_callback"
  /\ Precedes(calls, "train_op", "saver.save")
  /\ "train_op" \in Range(calls)
  /\ "saver.save" \in Range(calls)
  /\ weights = 1
  /\ checkpoint_files[1].weights = 1
  /\ checkpoint_files[1].global_step = 1


====
